---- MODULE Spec2Model ----
(***************************************************************************)
(* Model of src/bot.py: class Bot(commands.Bot).                           *)
(*                                                                         *)
(* State: the private attributes of Bot, the coroutines started by "ready" *)
(* deliveries (one per delivery, suspended at the awaits of prepare_data), *)
(* the autosave loop, and what the most recent call did (the calls it made *)
(* on Guild objects and on the framework, the lines it printed, what it    *)
(* raised and what it returned).                                           *)
(*                                                                         *)
(* Everything between two awaits runs without interleaving on the event    *)
(* loop, so each action is one such stretch of code.                       *)
(***************************************************************************)
EXTENDS Integers, Sequences, FiniteSets, TLC

\* Bounds of the model.
MaxReady == 2     \* number of "ready" deliveries
MaxGuild == 2     \* guild ids are 1..MaxGuild
MaxUser == 3      \* user ids asked of is_admin are 1..MaxUser

GuildIds == 1..MaxGuild
UserIds == 1..MaxUser
Tasks == 1..MaxReady

Range(s) == {s[i] : i \in 1..Len(s)}

VARIABLES
    _admins_id,        \* Bot._admins_id: list of int
    _token,            \* Bot._token
    _activity_str,     \* Bot._activity_str
    _custom_ready,     \* Bot._custom_ready
    _custom_guilds,    \* Bot._custom_guilds: the keys, in insertion order
    pc,                \* where the coroutine of each "ready" delivery stands
    load_guilds_calls, \* how often load_guilds was called / returned
    ready_presence,    \* the presence changes prepare_data asked for
    save_loop,         \* the tasks.loop around save
    called,            \* the most recent call
    raised,            \* what it raised ("" when nothing)
    calls,             \* its write_settings, write_data, change_presence calls
    console,           \* the lines it printed through log
    result             \* what it returned

vars == <<_admins_id, _token, _activity_str, _custom_ready, _custom_guilds,
          pc, load_guilds_calls, ready_presence, save_loop,
          called, raised, calls, console, result>>

bot == <<_admins_id, _token, _activity_str, _custom_ready, _custom_guilds,
         pc, load_guilds_calls, ready_presence, save_loop>>

\* ------------------------------------------------------------------------
\* The configuration files. A file is modelled by the mapping json.loads
\* gives; keys is the set of keys the mapping has.
\* ------------------------------------------------------------------------

\* An ADM_ID entry is a JSON number or a JSON string of digits.
Num(n) == [t |-> "int", n |-> n, s |-> ""]
Str(s) == [t |-> "str", n |-> 0, s |-> s]

\* int(x) without the parse of a string.
int_unparsed(e) == e.n

\* int(x) of Python on an ADM_ID entry: a number stays, a string is parsed.
int(e) == IF e.t = "int" THEN e.n ELSE CHOOSE n \in 0..MaxUser : ToString(n) = e.s

AllKeys == {"ADM_ID", "TOKEN", "Activities"}

Files ==
    [p \in {"a.json", "b.json", "noact.json"} |->
        CASE p = "a.json" ->
               [keys |-> AllKeys, ADM_ID |-> <<Str("1"), Num(2)>>,
                TOKEN |-> "tokA", Activities |-> <<"chess", "go">>]
          [] p = "b.json" ->
               [keys |-> AllKeys, ADM_ID |-> <<>>,
                TOKEN |-> "tokB", Activities |-> <<"go">>]
          [] p = "noact.json" ->
               [keys |-> AllKeys, ADM_ID |-> <<Str("1"), Num(2)>>,
                TOKEN |-> "tokA", Activities |-> <<>>]]

Paths == {"", "missing.json"} \cup DOMAIN Files

exists(path) == path \in DOMAIN Files

NoSettings == [keys |-> {}, ADM_ID |-> <<>>, TOKEN |-> "", Activities |-> <<>>]

LoadFailed ==
    "The loading operation has failed. The file \"internal_settings.json\" should be in the system directory"

\* load_internal_settings that logs the failure for the empty path too.
load_internal_settings_logging(path) ==
    IF path # "" /\ exists(path)
    THEN [found |-> TRUE, value |-> Files[path], log |-> <<>>]
    ELSE [found |-> FALSE, value |-> NoSettings, log |-> <<LoadFailed>>]

\* load_internal_settings: found is FALSE for the return value None.
load_internal_settings(path) ==
    IF path = ""
    THEN [found |-> FALSE, value |-> NoSettings, log |-> <<>>]
    ELSE IF exists(path)
         THEN [found |-> TRUE, value |-> Files[path], log |-> <<>>]
         ELSE [found |-> FALSE, value |-> NoSettings, log |-> <<LoadFailed>>]

\* The outcomes of set_internal_settings(path) on a bot whose three fields
\* are admins, token and activity: the assignments are made in order, and
\* a missing key or an empty Activities list raises where it is read.
internal_settings_outcomes(path, admins, token, activity) ==
    LET r == load_internal_settings(path)
        s == r.value
        head == <<"Loading internal definitions">> \o r.log
        new_admins == [i \in 1..Len(s.ADM_ID) |-> int(s.ADM_ID[i])]
    IN  IF ~r.found
        THEN {[admins |-> admins, token |-> token, activity |-> activity,
               raised |-> "", console |-> head \o <<"Failed set internal definitions">>]}
        ELSE IF "ADM_ID" \notin s.keys
        THEN {[admins |-> admins, token |-> token, activity |-> activity,
               raised |-> "KeyError", console |-> head]}
        ELSE IF "TOKEN" \notin s.keys
        THEN {[admins |-> new_admins, token |-> token, activity |-> activity,
               raised |-> "KeyError", console |-> head]}
        ELSE IF "Activities" \notin s.keys
        THEN {[admins |-> new_admins, token |-> s.TOKEN, activity |-> activity,
               raised |-> "KeyError", console |-> head]}
        ELSE IF s.Activities = <<>>
        THEN {[admins |-> new_admins, token |-> s.TOKEN, activity |-> activity,
               raised |-> "IndexError", console |-> head]}
        ELSE {[admins |-> new_admins, token |-> s.TOKEN, activity |-> a,
               raised |-> "", console |-> head] : a \in Range(s.Activities)}

\* A call: its name and its argument, a string s or a number n. For a save
\* the call also tells which of the write calls it makes is the one that
\* raises (0 for none).
Call(op, s, n) == [op |-> op, s |-> s, n |-> n]

\* Bot.__init__ with settings_file = path; a constructor that raises leaves
\* no bot, so the bot exists for the paths on which it does not.
Init ==
    \E path \in Paths :
      \E o \in internal_settings_outcomes(path, <<>>, "", "") :
        /\ o.raised = ""
        /\ _admins_id = o.admins
        /\ _token = o.token
        /\ _activity_str = o.activity
        /\ _custom_ready = FALSE
        /\ _custom_guilds = <<>>
        /\ pc = [t \in Tasks |-> "idle"]
        /\ load_guilds_calls = [called |-> 0, returned |-> 0]
        /\ ready_presence = <<>>
        /\ save_loop = "stopped"
        /\ called = Call("__init__", path, 0)
        /\ raised = ""
        /\ calls = <<>>
        /\ console = <<"Initializing", "Initializing the RNG">> \o o.console
        /\ result = "None"

set_internal_settings(path) ==
    \E o \in internal_settings_outcomes(path, _admins_id, _token, _activity_str) :
        /\ _admins_id' = o.admins
        /\ _token' = o.token
        /\ _activity_str' = o.activity
        /\ called' = Call("set_internal_settings", path, 0)
        /\ raised' = o.raised
        /\ calls' = <<>>
        /\ console' = o.console
        /\ result' = "None"
        /\ UNCHANGED <<_custom_ready, _custom_guilds, pc, load_guilds_calls,
                       ready_presence, save_loop>>

\* The direct call of load_internal_settings.
load_internal_settings_call(path) ==
    LET r == load_internal_settings(path)
    IN  /\ called' = Call("load_internal_settings", path, 0)
        /\ raised' = ""
        /\ calls' = <<>>
        /\ console' = r.log
        /\ result' = IF r.found THEN "dict" ELSE "None"
        /\ UNCHANGED bot

\* ------------------------------------------------------------------------
\* Events that only log.
\* ------------------------------------------------------------------------

on_connect ==
    /\ called' = Call("on_connect", "", 0)
    /\ raised' = ""
    /\ calls' = <<>>
    /\ console' = <<"Connected">>
    /\ result' = "None"
    /\ UNCHANGED bot

\* on_disconnect that clears the readiness flag.
on_disconnect_resetting ==
    /\ _custom_ready' = FALSE
    /\ called' = Call("on_disconnect", "", 0)
    /\ raised' = ""
    /\ calls' = <<>>
    /\ console' = <<"Disconnected">>
    /\ result' = "None"
    /\ UNCHANGED <<_admins_id, _token, _activity_str, _custom_guilds,
                   pc, load_guilds_calls, ready_presence, save_loop>>

on_disconnect ==
    /\ called' = Call("on_disconnect", "", 0)
    /\ raised' = ""
    /\ calls' = <<>>
    /\ console' = <<"Disconnected">>
    /\ result' = "None"
    /\ UNCHANGED bot

on_resumed ==
    /\ called' = Call("on_resumed", "", 0)
    /\ raised' = ""
    /\ calls' = <<>>
    /\ console' = <<"Resumed">>
    /\ result' = "None"
    /\ UNCHANGED bot

\* ------------------------------------------------------------------------
\* "ready": on_ready -> prepare_data -> set_activity.
\* ------------------------------------------------------------------------

\* str(guild_id), the key of a guild in the registry.
str(guild_id) == ToString(guild_id)

\* The guilds load_guilds may add: some of the guilds the bot is in, taken
\* in the order the framework lists them (here, by id).
IdSeqs ==
    {s \in UNION {[1..n -> GuildIds] : n \in 0..MaxGuild} :
        \A i, j \in 1..Len(s) : i < j => s[i] < s[j]}

\* guilds after self._custom_guilds[key] = Guild(...): a dict keeps the
\* place of a key it already has.
put(guilds, key) == IF key \in Range(guilds) THEN guilds ELSE Append(guilds, key)

RECURSIVE put_all(_, _)
put_all(guilds, ids) ==
    IF ids = <<>> THEN guilds ELSE put_all(put(guilds, str(Head(ids))), Tail(ids))

\* load_guilds is abstract in Bot: it adds entries for some guild ids, and
\* it may raise after adding some of them.
load_guilds_outcomes(guilds) ==
    {[guilds |-> put_all(guilds, ids), raised |-> r] :
        ids \in IdSeqs, r \in {"", "LoadError"}}

\* set_activity that passes the stored string whatever its argument.
set_activity_name_stored(activity) == _activity_str

\* The name set_activity gives to change_presence.
set_activity_name(activity) ==
    IF activity # "" THEN activity ELSE _activity_str

\* A "ready" delivery: on_ready logs and runs prepare_data up to its await
\* of wait_until_ready, or to its return when the flag is already set.
on_ready(t) ==
    /\ pc[t] = "idle"
    /\ \A u \in 1..(t - 1) : pc[u] # "idle"
    /\ IF ~_custom_ready
       THEN /\ _custom_ready' = TRUE
            /\ console' = <<"Ready", "Waiting...">>
            /\ pc' = [pc EXCEPT ![t] = "wait_until_ready"]
       ELSE /\ _custom_ready' = _custom_ready
            /\ console' = <<"Ready">>
            /\ pc' = [pc EXCEPT ![t] = "returned"]
    /\ called' = Call("on_ready", "", t)
    /\ raised' = ""
    /\ calls' = <<>>
    /\ result' = "None"
    /\ UNCHANGED <<_admins_id, _token, _activity_str, _custom_guilds,
                   load_guilds_calls, ready_presence, save_loop>>

\* A call on a collaborator: write_settings and write_data on the Guild
\* under a key, change_presence on the framework with a name.
Made(op, arg) == [op |-> op, arg |-> arg]

\* prepare_data from the return of wait_until_ready to the await of
\* change_presence inside set_activity: wait_until_ready may raise,
\* load_guilds may raise, and self.user is there or is None.
prepare_data(t) ==
    /\ pc[t] = "wait_until_ready"
    /\ called' = Call("prepare_data", "", t)
    /\ result' = "None"
    /\ \/ /\ raised' = "RuntimeError"
          /\ pc' = [pc EXCEPT ![t] = "raised"]
          /\ console' = <<>>
          /\ calls' = <<>>
          /\ UNCHANGED <<_custom_guilds, load_guilds_calls, ready_presence>>
       \/ \E o \in load_guilds_outcomes(_custom_guilds), user \in BOOLEAN :
            LET name == IF user THEN set_activity_name("")
                        ELSE set_activity_name("ERROR")
            IN  /\ _custom_guilds' = o.guilds
                /\ raised' = o.raised
                /\ IF o.raised # ""
                   THEN /\ load_guilds_calls' =
                             [load_guilds_calls EXCEPT !.called = @ + 1]
                        /\ pc' = [pc EXCEPT ![t] = "raised"]
                        /\ console' = <<>>
                        /\ calls' = <<>>
                        /\ UNCHANGED ready_presence
                   ELSE /\ load_guilds_calls' =
                             [called |-> load_guilds_calls.called + 1,
                              returned |-> load_guilds_calls.returned + 1]
                        /\ pc' = [pc EXCEPT ![t] = "change_presence"]
                        /\ console' = IF user
                                      THEN <<"ready to operate", "Logged as">>
                                      ELSE <<"Failed to get the user data">>
                        /\ calls' = <<Made("change_presence", name)>>
                        /\ ready_presence' =
                             Append(ready_presence, [user |-> user, name |-> name])
    /\ UNCHANGED <<_admins_id, _token, _activity_str, _custom_ready, save_loop>>

\* The return of change_presence into set_activity, prepare_data and
\* on_ready: it returns or it raises.
prepare_data_end(t) ==
    /\ pc[t] = "change_presence"
    /\ \E r \in {"", "PresenceError"} :
         /\ raised' = r
         /\ pc' = [pc EXCEPT ![t] = IF r = "" THEN "returned" ELSE "raised"]
    /\ called' = Call("prepare_data_end", "", t)
    /\ calls' = <<>>
    /\ console' = <<>>
    /\ result' = "None"
    /\ UNCHANGED <<_admins_id, _token, _activity_str, _custom_ready, _custom_guilds,
                   load_guilds_calls, ready_presence, save_loop>>

\* The activity names a caller of set_activity passes.
Activities == {"", "ERROR"}

\* set_activity called on its own.
set_activity(activity) ==
    /\ called' = Call("set_activity", activity, 0)
    /\ raised' \in {"", "PresenceError"}
    /\ calls' = <<Made("change_presence", set_activity_name(activity))>>
    /\ console' = <<>>
    /\ result' = "None"
    /\ UNCHANGED bot

\* ------------------------------------------------------------------------
\* Saving.
\* ------------------------------------------------------------------------

\* save_all_guilds that calls write_settings twice and never write_data.
all_writes_settings_only(guilds) ==
    [i \in 1..(2 * Len(guilds)) |-> Made("write_settings", guilds[(i + 1) \div 2])]

\* The calls save_all_guilds makes when none raises: for each guild in the
\* order of the dict, write_settings and then write_data.
all_writes(guilds) ==
    [i \in 1..(2 * Len(guilds)) |->
        Made(IF i % 2 = 1 THEN "write_settings" ELSE "write_data",
             guilds[(i + 1) \div 2])]

\* save_all_guilds that goes on to the next guilds after a call raised.
save_all_guilds_run_isolating(guilds, fail) ==
    [calls |-> all_writes(guilds), raised |-> IF fail = 0 THEN "" ELSE "WriteError"]

\* save_all_guilds when its fail-th call raises (none when fail = 0): the
\* loop ends at the call that raises.
save_all_guilds_run(guilds, fail) ==
    IF fail = 0
    THEN [calls |-> all_writes(guilds), raised |-> ""]
    ELSE [calls |-> SubSeq(all_writes(guilds), 1, fail), raised |-> "WriteError"]

\* save_guild that writes the data before the settings.
save_guild_run_data_first(guilds, guild_id, fail) ==
    IF str(guild_id) \notin Range(guilds)
    THEN [calls |-> <<>>, raised |-> "KeyError"]
    ELSE IF fail = 1
    THEN [calls |-> <<Made("write_data", str(guild_id))>>,
          raised |-> "WriteError"]
    ELSE [calls |-> <<Made("write_data", str(guild_id)),
                      Made("write_settings", str(guild_id))>>,
          raised |-> IF fail = 2 THEN "WriteError" ELSE ""]

\* save_guild when its fail-th call raises (none when fail = 0).
save_guild_run(guilds, guild_id, fail) ==
    IF str(guild_id) \notin Range(guilds)
    THEN [calls |-> <<>>, raised |-> "KeyError"]
    ELSE IF fail = 1
    THEN [calls |-> <<Made("write_settings", str(guild_id))>>,
          raised |-> "WriteError"]
    ELSE [calls |-> <<Made("write_settings", str(guild_id)),
                      Made("write_data", str(guild_id))>>,
          raised |-> IF fail = 2 THEN "WriteError" ELSE ""]

save_guild(guild_id) ==
    \E fail \in 0..2 :
      LET r == save_guild_run(_custom_guilds, guild_id, fail)
      IN  /\ called' = Call("save_guild", ToString(fail), guild_id)
          /\ raised' = r.raised
          /\ calls' = r.calls
          /\ console' = <<>>
          /\ result' = "None"
          /\ UNCHANGED bot

save_all_guilds ==
    \E fail \in 0..(2 * Len(_custom_guilds)) :
      LET r == save_all_guilds_run(_custom_guilds, fail)
      IN  /\ called' = Call("save_all_guilds", "", fail)
          /\ raised' = r.raised
          /\ calls' = r.calls
          /\ console' = <<>>
          /\ result' = "None"
          /\ UNCHANGED bot

\* save.start(): the loop is started by the code that completes the class.
save_start ==
    /\ save_loop = "stopped"
    /\ save_loop' = "running"
    /\ called' = Call("save.start", "", 0)
    /\ raised' = ""
    /\ calls' = <<>>
    /\ console' = <<>>
    /\ result' = "None"
    /\ UNCHANGED <<_admins_id, _token, _activity_str, _custom_ready, _custom_guilds,
                   pc, load_guilds_calls, ready_presence>>

\* What tasks.loop does with a body that raised: it runs the body again when
\* the exception is one of those it reconnects on, and ends the loop on any
\* other; which of the two a write raises is the Guild's business.
after_tick(r) == IF r = "" THEN {"running"} ELSE {"running", "stopped"}

\* One tick of the save loop.
save ==
    /\ save_loop = "running"
    /\ \E fail \in 0..(2 * Len(_custom_guilds)) :
         LET r == save_all_guilds_run(_custom_guilds, fail)
         IN  /\ called' = Call("save", "", fail)
             /\ raised' = r.raised
             /\ calls' = r.calls
             /\ save_loop' \in after_tick(r.raised)
    /\ console' = <<"Saving all guilds automatically">>
    /\ result' = "None"
    /\ UNCHANGED <<_admins_id, _token, _activity_str, _custom_ready, _custom_guilds,
                   pc, load_guilds_calls, ready_presence>>

\* ------------------------------------------------------------------------
\* Queries.
\* ------------------------------------------------------------------------

\* is_admin that looks at the first admin only.
is_admin_first(author_id) == _admins_id # <<>> /\ author_id = Head(_admins_id)

is_admin(author_id) == author_id \in Range(_admins_id)

is_admin_call(author_id) ==
    /\ called' = Call("is_admin", "", author_id)
    /\ raised' = ""
    /\ calls' = <<>>
    /\ console' = <<>>
    /\ result' = IF is_admin(author_id) THEN "True" ELSE "False"
    /\ UNCHANGED bot

\* get_custom_guild that adds the guild it does not find.
get_custom_guild_adding(guild_id) ==
    /\ _custom_guilds' = put(_custom_guilds, str(guild_id))
    /\ called' = Call("get_custom_guild", "", guild_id)
    /\ raised' = ""
    /\ calls' = <<>>
    /\ console' = <<>>
    /\ result' = str(guild_id)
    /\ UNCHANGED <<_admins_id, _token, _activity_str, _custom_ready,
                   pc, load_guilds_calls, ready_presence, save_loop>>

get_custom_guild(guild_id) ==
    /\ called' = Call("get_custom_guild", "", guild_id)
    /\ raised' = IF str(guild_id) \in Range(_custom_guilds) THEN "" ELSE "KeyError"
    /\ calls' = <<>>
    /\ console' = <<>>
    /\ result' = IF str(guild_id) \in Range(_custom_guilds)
                 THEN str(guild_id) ELSE "None"
    /\ UNCHANGED bot

Next ==
    \/ \E path \in Paths : set_internal_settings(path)
    \/ \E path \in Paths : load_internal_settings_call(path)
    \/ on_connect
    \/ on_disconnect
    \/ on_resumed
    \/ \E t \in Tasks : on_ready(t)
    \/ \E t \in Tasks : prepare_data(t)
    \/ \E t \in Tasks : prepare_data_end(t)
    \/ \E activity \in Activities : set_activity(activity)
    \/ \E guild_id \in GuildIds : save_guild(guild_id)
    \/ save_all_guilds
    \/ save_start
    \/ save
    \/ \E author_id \in UserIds : is_admin_call(author_id)
    \/ \E guild_id \in GuildIds : get_custom_guild(guild_id)

Spec == Init /\ [][Next]_vars

\* ------------------------------------------------------------------------
\* Properties.
\* ------------------------------------------------------------------------

Delivered == {t \in Tasks : pc[t] # "idle"}
Finished == \A t \in Tasks : pc[t] \in {"idle", "returned", "raised"}

\* C1: over any "ready" deliveries, a second one during the first's wait
\* included, load_guilds and the set_activity of prepare_data are each run
\* exactly once: never twice, and once every delivered handler has ended,
\* not zero times.
C1_InitializedExactlyOnce ==
    /\ load_guilds_calls.called <= 1
    /\ Len(ready_presence) <= 1
    /\ (Delivered # {} /\ Finished) =>
         (load_guilds_calls.called = 1 /\ Len(ready_presence) = 1)

Registered(n) == str(n) \in Range(_custom_guilds)

\* C2 as stated: save_guild on an unregistered id raises the lookup error
\* and makes no write call; on a registered id it calls that guild's
\* write_settings and then its write_data, once each, and nothing else.
C2_SaveGuildBothWrites ==
    called.op = "save_guild" =>
        IF ~Registered(called.n)
        THEN raised = "KeyError" /\ calls = <<>>
        ELSE calls = <<Made("write_settings", str(called.n)),
                       Made("write_data", str(called.n))>>

\* C2 amended: save_guild on an unregistered id raises the lookup error and
\* makes no write call; on a registered id it calls that guild's
\* write_settings once, and then that guild's write_data once unless
\* write_settings raised, in which case write_data is not called; no other
\* guild's write is called.
C2_SaveGuild ==
    called.op = "save_guild" =>
        IF ~Registered(called.n)
        THEN raised = "KeyError" /\ calls = <<>>
        ELSE \/ /\ called.s = "1"
                /\ calls = <<Made("write_settings", str(called.n))>>
                /\ raised = "WriteError"
             \/ /\ called.s # "1"
                /\ calls = <<Made("write_settings", str(called.n)),
                             Made("write_data", str(called.n))>>
                /\ (raised = "") = (called.s = "0")

C2_Witness ==
    /\ called.op = "save_guild"
    /\ Registered(called.n)
    /\ Len(_custom_guilds) >= 2
    /\ raised = ""

Count(op, key) == Cardinality({i \in 1..Len(calls) : calls[i] = Made(op, key)})

\* C3: a save_all_guilds in which no write raises, called directly or by a
\* tick of the save loop, calls write_settings once and write_data once on
\* every guild of the registry, and makes no other call.
C3_SaveAllGuilds ==
    (called.op \in {"save_all_guilds", "save"} /\ raised = "") =>
        /\ \A key \in Range(_custom_guilds) :
             Count("write_settings", key) = 1 /\ Count("write_data", key) = 1
        /\ Len(calls) = 2 * Len(_custom_guilds)

C3_Witness ==
    /\ called.op = "save_all_guilds"
    /\ raised = ""
    /\ Len(_custom_guilds) >= 2

Absent(path) == path = "" \/ ~exists(path)

SettingsFields == <<_admins_id, _token, _activity_str>>

\* C4 as stated: with an empty path or a path that names no file,
\* set_internal_settings raises nothing, logs its failure and leaves the
\* admins, the token and the activity as they were, and in both cases
\* load_internal_settings returns None and logs a failure itself.
C4_AbsentSettingsLogged ==
    [][/\ (called'.op = "set_internal_settings" /\ Absent(called'.s)) =>
            /\ raised' = ""
            /\ SettingsFields' = SettingsFields
            /\ "Failed set internal definitions" \in Range(console')
            /\ LoadFailed \in Range(console')
       /\ (called'.op = "load_internal_settings" /\ Absent(called'.s)) =>
            /\ result' = "None"
            /\ LoadFailed \in Range(console')]_vars

\* C4 amended: with an empty path or a path that names no file,
\* set_internal_settings raises nothing, logs its failure and leaves the
\* admins, the token and the activity as they were, and
\* load_internal_settings returns None; load_internal_settings logs a
\* failure itself for the missing file, and logs nothing for the empty path.
C4_AbsentSettings ==
    [][/\ (called'.op = "set_internal_settings" /\ Absent(called'.s)) =>
            /\ raised' = ""
            /\ SettingsFields' = SettingsFields
            /\ "Failed set internal definitions" \in Range(console')
            /\ (LoadFailed \in Range(console')) = (called'.s # "")
       /\ (called'.op = "load_internal_settings" /\ Absent(called'.s)) =>
            /\ result' = "None"
            /\ console' = IF called'.s = "" THEN <<>> ELSE <<LoadFailed>>]_vars

C4_Witness ==
    /\ called.op = "set_internal_settings"
    /\ called.s = ""
    /\ _token # ""
    /\ _admins_id # <<>>

Valid(path) ==
    /\ exists(path)
    /\ Files[path].keys = AllKeys
    /\ Files[path].Activities # <<>>

\* The integer an ADM_ID entry stands for is n.
Stands(e, n) == IF e.t = "int" THEN e.n = n ELSE e.s = ToString(n)

\* C5: set_internal_settings on a file with ADM_ID, TOKEN and a non-empty
\* Activities, in the constructor or later, makes the admins the ADM_ID
\* entries as integers, the token TOKEN, and the activity an element of
\* Activities.
C5_ValidSettings ==
    (called.op \in {"__init__", "set_internal_settings"} /\ Valid(called.s)) =>
        LET s == Files[called.s]
        IN  /\ raised = ""
            /\ Len(_admins_id) = Len(s.ADM_ID)
            /\ \A i \in 1..Len(s.ADM_ID) : Stands(s.ADM_ID[i], _admins_id[i])
            /\ _token = s.TOKEN
            /\ _activity_str \in Range(s.Activities)

C5_Witness ==
    /\ called.op = "set_internal_settings"
    /\ called.s = "a.json"
    /\ _activity_str = "go"
    /\ _custom_ready

\* The ids the ADM_ID of a file stands for; none when there is no file.
AdminsOf(path) ==
    IF Absent(path) THEN {}
    ELSE {n \in 0..MaxUser :
            \E i \in 1..Len(Files[path].ADM_ID) : Stands(Files[path].ADM_ID[i], n)}

\* C6: after construction the admins are those of the settings file; no
\* step other than set_internal_settings changes them; and is_admin(id) is
\* true exactly for the ids among them, so for none when there are none.
C6_IsAdmin ==
    /\ Range(_admins_id) = AdminsOf(called.s)
    /\ [][/\ called'.op # "set_internal_settings" => _admins_id' = _admins_id
          /\ called'.op = "is_admin" =>
               (result' = "True") = (\E i \in 1..Len(_admins_id) :
                                        _admins_id[i] = called'.n)
          /\ (called'.op = "is_admin" /\ _admins_id = <<>>) => result' = "False"]_vars

C6_Witness ==
    /\ called.op = "is_admin"
    /\ result = "True"
    /\ called.n = 2
    /\ _custom_ready

\* C7: in the handling of "ready", no presence change is asked for before
\* load_guilds has returned, and once it has returned exactly one has been:
\* with the stored activity string when self.user is there, with "ERROR"
\* when it is None; neither that step nor a set_activity call changes the
\* stored activity string.
C7_ReadyPresence ==
    [][/\ ready_presence' # <<>> => load_guilds_calls'.returned >= 1
       /\ load_guilds_calls'.returned >= 1 => Len(ready_presence') = 1
       /\ ready_presence' # ready_presence =>
            /\ called'.op = "prepare_data"
            /\ \E u \in BOOLEAN :
                 LET name == IF u THEN _activity_str ELSE "ERROR"
                 IN  /\ ready_presence' =
                          Append(ready_presence, [user |-> u, name |-> name])
                     /\ calls' = <<Made("change_presence", name)>>
            /\ _activity_str' = _activity_str
       /\ called'.op = "set_activity" => _activity_str' = _activity_str]_vars

C7_Witness ==
    /\ called.op = "prepare_data"
    /\ ready_presence = <<[user |-> FALSE, name |-> "ERROR"]>>
    /\ _activity_str = "chess"
    /\ Len(_custom_guilds) >= 1

\* C8 as stated: when a write raises in a tick of the save loop, the tick
\* raises, no later write is called in it, and the loop is still running
\* for its next tick.
C8_FailedTickRunsAgain ==
    (called.op = "save" /\ called.n > 0) =>
        /\ raised # ""
        /\ Len(calls) = called.n
        /\ save_loop = "running"

\* C8 amended: when a write raises in a tick of the save loop, the tick
\* raises and no later write is called in it; every tick, one after a
\* failed tick too, goes through the guilds from the first one in the order
\* of the registry. (Whether there is a next tick is up to tasks.loop.)
C8_FailedTick ==
    called.op = "save" =>
        /\ Len(calls) <= 2 * Len(_custom_guilds)
        /\ \A i \in 1..Len(calls) :
             /\ calls[i].arg = _custom_guilds[(i + 1) \div 2]
             /\ calls[i].op = IF i % 2 = 1 THEN "write_settings" ELSE "write_data"
        /\ IF called.n > 0
           THEN raised # "" /\ Len(calls) = called.n
           ELSE raised = "" /\ Len(calls) = 2 * Len(_custom_guilds)

C8_Witness ==
    /\ called.op = "save"
    /\ called.n = 1
    /\ Len(_custom_guilds) >= 2
    /\ save_loop = "running"

\* C9: the registry changes only in the load_guilds of prepare_data, and no
\* step takes an entry out of it.
C9_RegistryFrame ==
    [][/\ _custom_guilds' # _custom_guilds => called'.op = "prepare_data"
       /\ \A key \in Range(_custom_guilds) : key \in Range(_custom_guilds')]_vars

C9_Witness ==
    /\ called.op = "get_custom_guild"
    /\ raised = "KeyError"
    /\ Len(_custom_guilds) >= 1

\* C10: the readiness flag is false after construction, and once true it
\* stays true whatever happens.
C10_ReadyLatch ==
    /\ ~_custom_ready
    /\ [][_custom_ready => _custom_ready']_vars

C10_Witness ==
    /\ _custom_ready
    /\ called.op = "on_disconnect"
    /\ \E t \in Tasks : pc[t] = "raised"
====
